---------------------------- MODULE Spec2Model ----------------------------
(***************************************************************************)
(* Model of the download server (src/server.js): the /api/info and         *)
(* /api/download request handlers, the yt-dlp / ffmpeg subprocesses they   *)
(* spawn, the downloads directory, and the progressEmitter that fans       *)
(* progress events out to the /api/download/progress streams.              *)
(*                                                                         *)
(* Node runs every callback to completion, and the promise continuations   *)
(* that a callback triggers run before the next I/O callback.  Each action *)
(* below is therefore one callback together with the continuation of the   *)
(* awaiting handler that it resumes.                                       *)
(***************************************************************************)
EXTENDS Integers, Sequences, FiniteSets, TLC

\* ----------------------------------------------------------------- bounds
NumDownloads == 1      \* POST /api/download requests
NumInfos     == 1      \* POST /api/info requests
NumConns     == 2      \* GET /api/download/progress connections
MaxChunks    == 1      \* chunks of Extractor output read by the server
MaxFaults    == 3      \* subprocess / network failures the environment injects
MaxBroadcastFaults == 1 \* the same, while a progress stream is being followed
NumClients   == 2      \* browser pages running public/script.js
MaxStarts    == 2      \* downloads the pages start between them
MaxPageFaults == 1     \* failures injected while pages download
MaxFileFaults == 1     \* failures injected while requests share the directory
MaxFormats   == 3      \* entries of the format list in the Extractor's JSON

\* ------------------------------------------------------ program constants
maxRetries == 3        \* server.js:306

Downloads == 1..NumDownloads
Infos     == 1..NumInfos
Conns     == 1..NumConns
Attempts  == 1..maxRetries
Clients   == 1..NumClients
Started   == 1..MaxStarts

VARIABLES
  alive,      \* the Node process is running (FALSE after an uncaught exception)
  dl,         \* per /api/download request: the handler's locals and position
  proc,       \* per request and attempt: the yt-dlp process of attemptDownload:
              \*   "none", "running", "enoent" (spawn failed, 'error' queued),
              \*   "failed" ('error' delivered, 'close' to come), "killed" (timed
              \*   out, 'close' to come), and once closed: "resolved" (exit 0,
              \*   file there), "nofile" (exit 0, file absent), "exited" (code # 0),
              \*   "closed" (closed after the timeout or the 'error')
  info,       \* per /api/info request: the handler's position and response
  files,      \* the files that exist: those in downloadsDir, and the local
              \*   images a thumbnail field may name
  pub,        \* per /api/download request: what it has emitted so far (history)
  log,        \* the payloads emitted since the first subscription, in order (history)
  conn,       \* per progress connection: "new", "open", "closed"
  handlers,   \* listeners registered on progressEmitter
  received,   \* per connection: the payloads written to its response
  subAt,      \* per connection: Len(log) when it subscribed (history)
  chunks,     \* chunks read so far (bounded by MaxChunks)
  budget,     \* failures the environment may still inject
  client      \* per browser page: the state of public/script.js

vars == <<alive, dl, proc, info, files, pub, log, conn, handlers, received, subAt,
          chunks, budget, client>>

\* ------------------------------------------------------------ file names
\* A name in downloadsDir: prefix ++ <uuid of request `id`> ++ suffix.  Local
\* images outside it have a directory in their prefix and id 0.
FinalFile(id) == [prefix |-> "", id |-> id, suffix |-> ".mp4"]
PartFile(id)  == [prefix |-> "", id |-> id, suffix |-> ".mp4.part"]
TempFile(id)  == [prefix |-> "meta_temp_", id |-> id, suffix |-> ".mp4"]
ThumbFile(id) == [prefix |-> "thumb_", id |-> id, suffix |-> ".jpg"]

CoverFile      == [prefix |-> "/covers/", id |-> 0, suffix |-> ".jpg"]
ThumbCoverFile == [prefix |-> "/covers/thumb_", id |-> 0, suffix |-> ".jpg"]
AbsentFile     == [prefix |-> "/covers/", id |-> 0, suffix |-> ".png"]
NoPath         == [prefix |-> "", id |-> 0, suffix |-> ""]     \* null

\* The local images that exist when the server starts.
LocalImages == {CoverFile, ThumbCoverFile}

StartsWithId(f, id) == f.prefix = "" /\ f.id = id
\* path.includes('thumb_')
IncludesThumb(f)    == f.prefix \in {"thumb_", "/covers/thumb_"}
EndsWithMp4(f)      == f.suffix = ".mp4"

\* -------------------------------------------------------- HTTP responses
NoResponse      == [status |-> 0,   success |-> FALSE, file |-> 0, error |-> ""]
BadRequest      == [status |-> 400, success |-> FALSE, file |-> 0, error |-> "Missing URL"]
ServerError(e)  == [status |-> 500, success |-> FALSE, file |-> 0, error |-> e]
DownloadOk(id)  == [status |-> 200, success |-> TRUE,  file |-> id, error |-> ""]
InfoOk          == [status |-> 200, success |-> FALSE, file |-> 0, error |-> ""]

\* --------------------------------------------------------- progress data
\* The object handed to progressEmitter.emit; -1 / "" / 0 mark an absent key.
Data(p, s, e, n, c, f) ==
  [progress |-> p, status |-> s, error |-> e, retry |-> n, complete |-> c, file |-> f]
PercentData(p)    == Data(p, "", "", 0, FALSE, 0)
StatusData(s)     == Data(-1, s, "", 0, FALSE, 0)
FinalizingData    == Data(100, "Finalizing...", "", 0, FALSE, 0)
ErrorData(e)      == Data(-1, "", e, 0, FALSE, 0)
RetryData(n)      == Data(0, "Retrying download...", "", n, FALSE, 0)
CompleteData(id)  == Data(-1, "", "", 0, TRUE, id)


\* The kind of a payload, by the key a consumer looks at first.
Kind(d) ==
  CASE d.error # ""  -> "error"
    [] d.complete    -> "complete"
    [] d.retry > 0   -> "retry"
    [] OTHER         -> "progress"

\* How many payloads of each kind a request has emitted, and the last kind;
\* errors: the error messages among them.
NoneEmitted == [error |-> 0, retry |-> 0, complete |-> 0, last |-> "none", errors |-> {}]

RECURSIVE Emitted(_, _)
Emitted(p, ds) ==
  IF ds = <<>> THEN p
  ELSE LET k == Kind(Head(ds)) IN
       Emitted([p EXCEPT !.error    = IF k = "error" THEN @ + 1 ELSE @,
                         !.retry    = IF k = "retry" THEN @ + 1 ELSE @,
                         !.complete = IF k = "complete" THEN @ + 1 ELSE @,
                         !.last     = k,
                         !.errors   = IF k = "error" THEN @ \cup {Head(ds).error} ELSE @],
               Tail(ds))

\* ------------------------------------------------- Extractor command line
\* A field that the request body does not carry.
Undefined == "<undefined>"

\* The values of videoItag / audioItag that clients send.
Itags == {Undefined, "", " ", "137"}

\* JavaScript truthiness of such a value.
Truthy(x) == x \notin {Undefined, ""}

\* The -f value of lines 291-297.
FormatArg(videoItag, audioItag) ==
  IF Truthy(videoItag) /\ Truthy(audioItag) THEN videoItag \o "+" \o audioItag
  ELSE IF Truthy(videoItag) THEN videoItag
  ELSE "bestvideo+bestaudio"

\* args as built by lines 277-299.
DownloadArgs(videoItag, audioItag) ==
  << "--no-warnings", "--ignore-errors", "--no-check-certificates",
     "--console-title", "--newline", "--progress",
     "--ffmpeg-location", "<ffmpegDir>", "--user-agent", "<user agent>",
     "--no-playlist", "-o", "<baseOutput>.%(ext)s", "<url>",
     "-f", FormatArg(videoItag, audioItag),
     "--merge-output-format", "mp4",
     "--postprocessor-args", "-c:v copy -c:a aac -b:a 192k" >>

\* String(arg).trim() === ''
Blank(arg) == arg \in {"", " "}

\* filteredArgs, line 301.
FilterArgs(args) == SelectSeq(args, LAMBDA arg : arg # Undefined /\ ~Blank(arg))

\* The value the Extractor reads for option opt: the argument that follows it.
OptionValue(args, opt) ==
  IF \E i \in 1..(Len(args) - 1) : args[i] = opt
    THEN args[(CHOOSE i \in 1..(Len(args) - 1) : args[i] = opt) + 1]
    ELSE Undefined

\* ------------------------------------------------------ Format Translator
\* Text is a sequence of characters, so that parseInt can be computed.
DigitChars == <<"0", "1", "2", "3", "4", "5", "6", "7", "8", "9">>
IsDigit(c) == \E d \in 1..10 : DigitChars[d] = c
DigitValue(c) == (CHOOSE d \in 1..10 : DigitChars[d] = c) - 1

\* `${n}` for a positive integer n.
RECURSIVE ToText(_)
ToText(n) == IF n < 10 THEN <<DigitChars[n + 1]>>
             ELSE ToText(n \div 10) \o <<DigitChars[(n % 10) + 1]>>

\* parseInt(text) || 0: the number written by the leading digits, 0 when
\* there is none (NaN).
RECURSIVE LeadingNumber(_, _)
LeadingNumber(text, acc) ==
  IF text # <<>> /\ IsDigit(Head(text))
    THEN LeadingNumber(Tail(text), acc * 10 + DigitValue(Head(text)))
    ELSE acc
ParseIntOrZero(text) == LeadingNumber(text, 0)

\* The entries of info.formats in the Extractor's JSON: a present format_note
\* is a non-empty text, an absent height or tbr is 0.
FormatEntries ==
  {f \in [vcodec : {"none", "avc1"}, acodec : {"none", "mp4a"},
          format_note : {<<>>, <<"7", "2", "0", "p">>, <<"H", "D">>},
          height : {0, 1080}, tbr : {0, 128}] :
     f.format_note # <<>> => f.height = 0}

\* A format list of at most n entries; format_id is the entry's position.
FormatLists(n) ==
  UNION {[1..k -> FormatEntries] : k \in 0..n}

WithIds(list) == [k \in 1..Len(list) |->
                    [format_id |-> k, vcodec |-> list[k].vcodec, acodec |-> list[k].acodec,
                     format_note |-> list[k].format_note, height |-> list[k].height,
                     tbr |-> list[k].tbr]]

\* info.formats is absent.
NoFormats == [present |-> FALSE, formats |-> <<>>]

\* A filter that lets every entry through.
IsVideoAlways(f) == TRUE

\* The filters of lines 95 and 121.
IsVideo(f) == f.vcodec # "none"
IsAudio(f) == f.acodec # "none" /\ f.vcodec = "none"

\* Line 105.
Resolution(f) ==
  IF f.format_note # <<>> THEN f.format_note
  ELSE IF f.height # 0 THEN ToText(f.height) \o <<"p">>
  ELSE <<"U", "n", "k", "n", "o", "w", "n">>

\* The maps of lines 96-113 and 122-126 (sizeMB, codec and container left out).
VideoFormat(f) ==
  [resolution |-> Resolution(f), bitrate |-> f.tbr, itag |-> f.format_id,
   hasAudio |-> f.acodec # "none"]
AudioFormat(f) == [itag |-> f.format_id, bitrate |-> f.tbr]

\* A sort that leaves the order as it is.
SortDescKeepOrder(seq, keys) == seq

\* Array.prototype.sort with the comparator (a, b) => key(b) - key(a): a
\* stable sort by descending key.  keys[k] is the key of seq[k].
RECURSIVE InsertDesc(_, _, _)
InsertDesc(k, order, keys) ==
  IF order = <<>> THEN <<k>>
  ELSE IF keys[Head(order)] >= keys[k]
         THEN <<Head(order)>> \o InsertDesc(k, Tail(order), keys)
         ELSE <<k>> \o order

RECURSIVE SortedOrder(_, _)
SortedOrder(n, keys) ==
  IF n = 0 THEN <<>> ELSE InsertDesc(n, SortedOrder(n - 1, keys), keys)

SortDesc(seq, keys) ==
  LET order == SortedOrder(Len(seq), keys) IN
  [k \in 1..Len(seq) |-> seq[order[k]]]

ResolutionKey(v) == ParseIntOrZero(v.resolution)
BitrateKey(a) == a.bitrate

\* videoFormats and audioFormats of lines 94-127 for the parsed JSON json.
VideoFormats(json) ==
  LET fs == SelectSeq(json.formats, IsVideo)
      vs == [k \in 1..Len(fs) |-> VideoFormat(fs[k])]
  IN SortDesc(vs, [k \in 1..Len(vs) |-> ResolutionKey(vs[k])])
AudioFormats(json) ==
  LET fs == SelectSeq(json.formats, IsAudio)
      as == [k \in 1..Len(fs) |-> AudioFormat(fs[k])]
  IN SortDesc(as, [k \in 1..Len(as) |-> BitrateKey(as[k])])

\* ------------------------------------------------------ Metadata Embedder
\* The thumbnail field of the info re-fetched for the metadata: '' (absent),
\* an http(s) URL, or a local path.
NoThumbnail  == [kind |-> "empty", file |-> NoPath]
UrlThumbnail == [kind |-> "url", file |-> NoPath]
Thumbnails ==
  {NoThumbnail, UrlThumbnail} \cup
  {[kind |-> "path", file |-> f] : f \in {CoverFile, ThumbCoverFile, AbsentFile}}

\* What fetchVideoInfo settles with: a rejection, or an info with a thumbnail.
InfoResults ==
  {[ok |-> FALSE, thumbnail |-> NoThumbnail]} \cup
  {[ok |-> TRUE, thumbnail |-> t] : t \in Thumbnails}

\* /^https?:\/\//i.test(metadata.thumbnail)
IsHttpUrl(t) == t.kind = "url"

\* ffmpeg's arguments, reduced to its inputs and the attached_pic disposition.
NoArgs == [inputs |-> <<>>, attachedPic |-> FALSE]

\* Arguments that never attach a picture.
FfmpegArgsTagOnly(filePath, thumbPath) == [inputs |-> <<filePath>>, attachedPic |-> FALSE]

\* Lines 204-229.
FfmpegArgs(filePath, thumbPath) ==
  IF thumbPath # NoPath
    THEN [inputs |-> <<filePath, thumbPath>>, attachedPic |-> TRUE]
    ELSE [inputs |-> <<filePath>>, attachedPic |-> FALSE]

\* ------------------------------------------------------------ initial state
\* The server has started; no request has arrived and nobody is subscribed.
NewDownload ==
  [pc |-> "new", url |-> FALSE, retryCount |-> 0, downloadSuccess |-> FALSE,
   thumbnail |-> NoThumbnail, thumbDl |-> "none", thumbPath |-> NoPath, ffSpawns |-> 0, ffArgs |-> NoArgs,
   ff |-> "none", tagged |-> FALSE, metaErr |-> FALSE, response |-> NoResponse, spawns |-> 0,
   timer |-> [a \in Attempts |-> "none"],
   videoItag |-> Undefined, audioItag |-> Undefined, filteredArgs |-> <<>>,
   argv |-> [a \in Attempts |-> <<>>], cleaned |-> {}]
NewInfo ==
  [pc |-> "new", url |-> FALSE, outcome |-> "none", response |-> NoResponse,
   spawns |-> 0, sends |-> 0,
   json |-> NoFormats, formats |-> <<>>, audioFormats |-> <<>>]

\* The page after load, script.js lines 65-69: no EventSource (0), nothing
\* downloading.  read: the events of the current EventSource dispatched so far;
\* sent: the /api/download requests issued, with the url sent (history);
\* pending: those whose fetch has not settled; timers: the files of the pending
\* 800 ms timers that call downloadComplete, oldest first; links: those of the
\* pending 500 ms timers that click the download link; finalized: the files
\* downloadComplete took effect for, in order (history); saved: the files
\* whose link was clicked (history).
NewClient ==
  [isDownloading |-> FALSE, downloadHandled |-> FALSE, downloadFinalized |-> FALSE,
   disabled |-> FALSE, eventSource |-> 0, read |-> 0,
   sent |-> {}, pending |-> {}, timers |-> <<>>, links |-> <<>>,
   finalized |-> <<>>, saved |-> {}]

Init ==
  /\ alive = TRUE
  /\ dl = [r \in Downloads |-> NewDownload]
  /\ proc = [r \in Downloads |-> [a \in Attempts |-> "none"]]
  /\ info = [i \in Infos |-> NewInfo]
  /\ files = LocalImages
  /\ pub = [r \in Downloads |-> NoneEmitted]
  /\ log = <<>>
  /\ conn = [c \in Conns |-> "new"]
  /\ handlers = {}
  /\ received = [c \in Conns |-> <<>>]
  /\ subAt = [c \in Conns |-> 0]
  /\ chunks = 0
  /\ budget = MaxFaults
  /\ client = [k \in Clients |-> NewClient]

\* ------------------------------------------------------ Progress Broadcaster
\* A handler that writes every payload twice.
ProgressHandlerTwice(c, ds) == received[c] \o ds \o ds

\* progressHandler of one connection: res.write of the payload.
ProgressHandler(c, ds) == received[c] \o ds

\* progressEmitter.emit('progress', d) for each d of ds, in order: every
\* registered listener is called synchronously.
Emit(r, ds) ==
  /\ pub' = [pub EXCEPT ![r] = Emitted(@, ds)]
  /\ log' = IF \E c \in Conns : conn[c] # "new" THEN log \o ds ELSE log
  /\ received' = [c \in Conns |->
                    IF c \in handlers THEN ProgressHandler(c, ds) ELSE received[c]]

\* app.get('/api/download/progress'): subscribe the connection's handler.
Subscribed(c) == handlers \cup {c}

ProgressConnect(c) ==
  /\ alive
  /\ conn[c] = "new"
  /\ conn' = [conn EXCEPT ![c] = "open"]
  /\ handlers' = Subscribed(c)
  /\ subAt' = [subAt EXCEPT ![c] = Len(log)]
  /\ UNCHANGED <<client, alive, dl, proc, info, files, pub, log, received, chunks, budget>>

\* A close callback that forgets progressEmitter.off.
StillSubscribed(c) == handlers

\* req.on('close'): progressEmitter.off and res.end.
Unsubscribed(c) == handlers \ {c}

ProgressClose(c) ==
  /\ alive
  /\ conn[c] = "open"
  /\ conn' = [conn EXCEPT ![c] = "closed"]
  /\ handlers' = Unsubscribed(c)
  /\ UNCHANGED <<client, alive, dl, proc, info, files, pub, log, received, subAt, chunks, budget>>

\* ----------------------------------------------------------- /api/info
\* json: the formats of the document the Extractor prints for the request;
\* formats, audioFormats: the lists of the 200 answer.
\* res.status(..).json(..): the first call answers the request, a second one
\* throws ERR_HTTP_HEADERS_SENT inside the event callback, which nothing
\* catches, so the process dies.
InfoSend(i, out, resp) ==
  /\ info' = [info EXCEPT ![i].response = IF @ = NoResponse THEN resp ELSE @,
                          ![i].outcome = IF @ = "none" THEN out ELSE @,
                          ![i].formats = IF info[i].sends = 0 /\ out = "ok"
                                           THEN VideoFormats(info[i].json) ELSE @,
                          ![i].audioFormats = IF info[i].sends = 0 /\ out = "ok"
                                                THEN AudioFormats(info[i].json) ELSE @,
                          ![i].sends = @ + 1,
                          ![i].pc = IF info[i].pc = "enoent" THEN "errored" ELSE "done"]
  /\ alive' = (info[i].sends = 0)

\* A handler without the guard.
NeverMissing(url) == FALSE

\* The guards of lines 57 and 266.
MissingUrl(url) == ~url

PostInfo(i, url, spawnOk) ==
  /\ alive
  /\ info[i].pc = "new"
  /\ IF MissingUrl(url)
       THEN /\ spawnOk
            /\ info' = [info EXCEPT ![i].pc = "done", ![i].response = BadRequest,
                                    ![i].sends = 1]
            /\ budget' = budget
       ELSE /\ spawnOk \/ budget > 0
            /\ info' = [info EXCEPT ![i].pc = IF spawnOk THEN "running" ELSE "enoent",
                                    ![i].url = url,
                                    ![i].spawns = @ + 1]
            /\ budget' = IF spawnOk THEN budget ELSE budget - 1
  /\ UNCHANGED <<client, alive, dl, proc, files, pub, log, conn, handlers, received, subAt, chunks>>

\* proc.on('error') of /api/info (spawn failure).
InfoError(i) ==
  /\ alive
  /\ info[i].pc = "enoent"
  /\ InfoSend(i, "spawn", ServerError("Failed to start yt-dlp"))
  /\ UNCHANGED <<client, dl, proc, files, pub, log, conn, handlers, received, subAt, chunks, budget>>

\* proc.on('close') of /api/info.  out: "ok" (exit 0, JSON parses),
\* "badjson" (exit 0, JSON.parse throws), "nonzero" (exit code # 0).
InfoReplyLenient(out) ==
  IF out = "nonzero" THEN ServerError("Failed to get video info") ELSE InfoOk

InfoReply(out) ==
  CASE out = "ok"      -> InfoOk
    [] out = "badjson" -> ServerError("Failed to parse video info")
    [] OTHER           -> ServerError("Failed to get video info")

InfoClose(i, out) ==
  /\ alive
  /\ \/ info[i].pc = "running" /\ (out = "ok" \/ budget > 0)
     \/ info[i].pc = "errored" /\ out = "nonzero"
  /\ InfoSend(i, out, InfoReply(out))
  /\ budget' = IF info[i].pc = "running" /\ out # "ok" THEN budget - 1 ELSE budget
  /\ UNCHANGED <<client, dl, proc, files, pub, log, conn, handlers, received, subAt, chunks>>

\* ------------------------------------------------- /api/download: attempts
\* spawn('yt-dlp', ...): the process starts ("running") or the spawn fails and
\* an 'error' event is queued ("enoent").
Spawned(ok) == IF ok THEN "running" ELSE "enoent"

\* The text of one chunk, reduced to what the handlers look at:
\* pct is the number captured by progressRegex (-1: no match), dest whether
\* the text includes 'Destination:', hundred whether it includes '100%'.
\* The Extractor prints more than 100% when a size estimate was too low.
ChunkTexts ==
  { [pct |-> -1,  dest |-> FALSE, hundred |-> FALSE],
    [pct |-> -1,  dest |-> TRUE,  hundred |-> FALSE],
    [pct |-> 42,  dest |-> FALSE, hundred |-> FALSE],
    [pct |-> 100, dest |-> FALSE, hundred |-> TRUE],
    [pct |-> 104, dest |-> FALSE, hundred |-> FALSE] }

Streams == {"stdout", "stderr"}

\* proc.stdout.on('data') / proc.stderr.on('data'): the payloads emitted for
\* one chunk.
ChunkData(stream, text) ==
  (IF text.pct # -1 THEN <<PercentData(text.pct)>> ELSE <<>>)
  \o (IF stream = "stdout" /\ text.dest THEN <<StatusData("Downloading...")>> ELSE <<>>)
  \o (IF stream = "stdout" /\ text.hundred THEN <<FinalizingData>> ELSE <<>>)

\* killTimeout of an attempt: "none", "armed" (setTimeout), "cleared"
\* (clearTimeout before it fired), "fired".
\* A callback that forgets clearTimeout.
ClearTimeoutForgotten(t) == t

\* clearTimeout(killTimeout): no effect on a timer that has fired.
ClearTimeout(t) == IF t = "armed" THEN "cleared" ELSE t

\* An off-by-one retry ceiling.
RetryAgainOffByOne(n) == n <= maxRetries

\* The condition of the retry loop (line 386) after a failed attempt, and the
\* branch of line 398.
RetryAgain(n) == n < maxRetries

\* fs.existsSync(finalFilePath)
FinalExists(r) == FinalFile(r) \in files

\* A catch block that retries without announcing it.
CatchAttemptSilent(r, ds, ps, tm) ==
  LET n == dl[r].retryCount + 1 IN
  /\ Emit(r, ds)
  /\ proc' = [proc EXCEPT ![r][n] = ps]
  /\ dl' = [dl EXCEPT ![r].retryCount = n,
                      ![r].timer[n] = tm,
                      ![r].pc = IF RetryAgain(n) THEN "pause" ELSE "done",
                      ![r].response = IF RetryAgain(n) THEN @
                                      ELSE ServerError("Download failed after retries")]

\* The catch block of the retry loop, entered when attemptDownload rejected.
\* ds: the payloads the rejecting callback emitted before rejecting; ps: the
\* state the attempt's process is left in; tm: the state it leaves killTimeout in.
CatchAttempt(r, ds, ps, tm) ==
  LET n == dl[r].retryCount + 1 IN
  /\ Emit(r, ds \o <<RetryData(n)>>)
  /\ proc' = [proc EXCEPT ![r][n] = ps]
  /\ dl' = [dl EXCEPT ![r].retryCount = n,
                      ![r].timer[n] = tm,
                      ![r].pc = IF RetryAgain(n) THEN "pause" ELSE "done",
                      ![r].response = IF RetryAgain(n) THEN @
                                      ELSE ServerError("Download failed after retries")]

\* POST /api/download: the 400 guard, then the first attemptDownload().
PostDownload(r, url, spawnOk) ==
  /\ alive
  /\ dl[r].pc = "new"
  /\ IF MissingUrl(url)
       THEN /\ spawnOk
            /\ dl' = [dl EXCEPT ![r].pc = "done", ![r].response = BadRequest]
            /\ UNCHANGED <<proc, budget>>
       ELSE /\ spawnOk \/ budget > 0
            /\ LET args == FilterArgs(DownloadArgs(dl[r].videoItag, dl[r].audioItag)) IN
                 dl' = [dl EXCEPT ![r].pc = "attempt", ![r].url = url, ![r].spawns = @ + 1,
                                  ![r].timer[1] = "armed",
                                  ![r].filteredArgs = args,
                                  ![r].argv[1] = args]
            /\ proc' = [proc EXCEPT ![r][1] = Spawned(spawnOk)]
            /\ budget' = IF spawnOk THEN budget ELSE budget - 1
  /\ UNCHANGED <<client, alive, info, files, pub, log, conn, handlers, received, subAt, chunks>>

\* The 3-second pause has elapsed: the loop runs attemptDownload() again.
PauseElapsed(r, spawnOk) ==
  /\ alive
  /\ dl[r].pc = "pause"
  /\ spawnOk \/ budget > 0
  /\ dl' = [dl EXCEPT ![r].pc = "attempt", ![r].spawns = @ + 1,
                      ![r].timer[dl[r].retryCount + 1] = "armed",
                      ![r].argv[dl[r].retryCount + 1] = dl[r].filteredArgs]
  /\ proc' = [proc EXCEPT ![r][dl[r].retryCount + 1] = Spawned(spawnOk)]
  /\ budget' = IF spawnOk THEN budget ELSE budget - 1
  /\ UNCHANGED <<client, alive, info, files, pub, log, conn, handlers, received, subAt, chunks>>

\* A chunk arrives on the stdout or stderr of an attempt's process.  A process
\* that was sent the kill signal may still be writing.
ExtractorChunk(r, a, stream, text) ==
  /\ alive
  /\ proc[r][a] \in {"running", "killed"}
  /\ chunks < MaxChunks
  /\ chunks' = chunks + 1
  /\ Emit(r, ChunkData(stream, text))
  /\ UNCHANGED <<client, alive, dl, proc, info, files, conn, handlers, subAt, budget>>

\* The Extractor writes a file of its output template into downloadsDir.
ExtractorWrites(r, a, f) ==
  /\ alive
  /\ proc[r][a] \in {"running", "killed"}
  /\ f \in {PartFile(r), FinalFile(r)}
  /\ f \notin files
  /\ files' = files \cup {f}
  /\ UNCHANGED <<client, alive, dl, proc, info, pub, log, conn, handlers, received, subAt, chunks, budget>>

\* proc.on('error') of attemptDownload: the spawn failed.
ExtractorError(r, a) ==
  /\ alive
  /\ proc[r][a] = "enoent"
  /\ CatchAttempt(r, <<ErrorData("Failed to start download")>>, "failed",
                  ClearTimeout(dl[r].timer[a]))
  /\ UNCHANGED <<client, alive, info, files, conn, handlers, subAt, chunks, budget>>

\* killTimeout fires, 15 minutes after the spawn: proc.kill(), error event,
\* reject.  The 'error' event of a failed spawn is delivered on the next tick,
\* long before the timer can fire.
KillTimeout(r, a) ==
  /\ alive
  /\ dl[r].timer[a] = "armed"
  /\ proc[r][a] # "enoent"
  /\ budget > 0
  /\ budget' = budget - 1
  /\ CatchAttempt(r, <<ErrorData("Download timed out")>>, "killed", "fired")
  /\ UNCHANGED <<client, alive, info, files, conn, handlers, subAt, chunks>>

\* A close callback that trusts the exit code and skips fs.existsSync.
CloseErrorsUnchecked(r, code) ==
  IF code # 0 THEN <<ErrorData("Download failed")>> ELSE <<>>

\* What proc.on('close') emits before it rejects: nothing when it resolves.
CloseErrors(r, code) ==
  IF code # 0 THEN <<ErrorData("Download failed")>>
  ELSE IF ~FinalExists(r) THEN <<ErrorData("File not created")>>
  ELSE <<>>

\* proc.on('close') while attemptDownload's promise is pending: reject (and
\* retry or give up) or resolve; after resolve the loop ends and
\* fetchVideoInfo(url) spawns yt-dlp once more.
ExtractorClose(r, a, code, spawnOk) ==
  /\ alive
  /\ proc[r][a] = "running"
  /\ IF CloseErrors(r, code) # <<>>
       THEN /\ spawnOk
            /\ budget > 0
            /\ budget' = budget - 1
            /\ CatchAttempt(r, CloseErrors(r, code), IF code # 0 THEN "exited" ELSE "nofile",
                            ClearTimeout(dl[r].timer[a]))
       ELSE /\ spawnOk \/ budget > 0
            /\ budget' = IF spawnOk THEN budget ELSE budget - 1
            /\ proc' = [proc EXCEPT ![r][a] = "resolved"]
            /\ dl' = [dl EXCEPT ![r].downloadSuccess = TRUE,
                                ![r].timer[a] = ClearTimeout(@),
                                ![r].spawns = @ + 1,
                                ![r].pc = IF spawnOk THEN "fetchInfo" ELSE "fetchInfoEnoent"]
            /\ UNCHANGED <<pub, log, received, chunks>>
  /\ UNCHANGED <<client, alive, info, files, conn, handlers, subAt, chunks>>

\* proc.on('close') after the promise was settled by the timeout or by the
\* 'error' callback: the callback still emits, its reject/resolve do nothing.
\* A failed spawn closes with a negative code.
ExtractorLateClose(r, a, code) ==
  /\ alive
  /\ proc[r][a] \in {"killed", "failed"}
  /\ proc[r][a] = "failed" => code # 0
  /\ proc' = [proc EXCEPT ![r][a] = "closed"]
  /\ dl' = [dl EXCEPT ![r].timer[a] = ClearTimeout(@)]
  /\ Emit(r, CloseErrors(r, code))
  /\ UNCHANGED <<client, alive, info, files, conn, handlers, subAt, chunks, budget>>

\* ------------------------------------------- /api/download: metadata step
\* The clean-up loop of lines 425-434 applied to the directory listing fs.
\* A clean-up test that forgets file.startsWith(id).
RemovedWhateverId(f, id) == f.prefix = "" /\ ~EndsWithMp4(f)

\* The test of line 427.
Removed(f, id) == StartsWithId(f, id) /\ ~EndsWithMp4(f)

CleanUp(id, fs) == {f \in fs : ~Removed(f, id)}

\* An end of the handler that answers without emitting 'complete'.
FinishSilent(r, fs, err, ffEnd, tagged) ==
  /\ files' = CleanUp(r, fs)
  /\ Emit(r, <<>>)
  /\ dl' = [dl EXCEPT ![r].pc = "done", ![r].metaErr = err,
                      ![r].ff = ffEnd, ![r].tagged = tagged,
                      ![r].cleaned = fs \ CleanUp(r, fs),
                      ![r].response = DownloadOk(r)]

\* The end of the handler, lines 420-437: the catch of the metadata step
\* (err: it caught something) only logs; then clean up, emit 'complete',
\* answer success.  fs: the files as the metadata step left them; ffEnd: how
\* ffmpeg ended ("none": not spawned, "error": spawn failed, "failed": exit
\* code # 0, "ok"); tagged: whether <id>.mp4 now is ffmpeg's output.
Finish(r, fs, err, ffEnd, tagged) ==
  /\ files' = CleanUp(r, fs)
  /\ Emit(r, <<CompleteData(r)>>)
  /\ dl' = [dl EXCEPT ![r].pc = "done", ![r].metaErr = err,
                      ![r].ff = ffEnd, ![r].tagged = tagged,
                      ![r].cleaned = fs \ CleanUp(r, fs),
                      ![r].response = DownloadOk(r)]

\* spawn(ffmpegPath, args) in embedMetadata.
FfmpegSpawned(ok) == IF ok THEN "ffmpeg" ELSE "ffmpegEnoent"

\* fetchVideoInfo has no 'error' listener: a failed spawn is an unhandled
\* 'error' event, which ends the process.
FetchInfoError(r) ==
  /\ alive
  /\ dl[r].pc = "fetchInfoEnoent"
  /\ alive' = FALSE
  /\ UNCHANGED <<client, dl, proc, info, files, pub, log, conn, handlers, received, subAt, chunks, budget>>

\* fs.existsSync(path)
ExistsSync(path) == path \in files

\* The thumbPath of lines 198-201, for a thumbnail that is not a URL.
LocalThumbPath(t) ==
  IF t.kind = "path" /\ ExistsSync(t.file) THEN t.file ELSE NoPath

\* proc.on('close') of fetchVideoInfo, then the start of embedMetadata.
\* out: what fetchVideoInfo settles with (a rejection for a non-zero exit or
\* a JSON.parse that throws).
FetchInfoClose(r, out, ffOk) ==
  /\ alive
  /\ dl[r].pc = "fetchInfo"
  /\ CASE ~out.ok ->
            /\ ffOk
            /\ budget > 0
            /\ budget' = budget - 1
            /\ Finish(r, files, TRUE, "none", FALSE)
       [] out.ok /\ IsHttpUrl(out.thumbnail) ->
            /\ ffOk
            /\ dl' = [dl EXCEPT ![r].pc = "thumb", ![r].thumbnail = out.thumbnail]
            /\ UNCHANGED <<files, pub, log, received, chunks, budget>>
       [] OTHER ->
            /\ ffOk \/ budget > 0
            /\ budget' = IF ffOk THEN budget ELSE budget - 1
            /\ dl' = [dl EXCEPT ![r].pc = FfmpegSpawned(ffOk),
                                ![r].thumbnail = out.thumbnail,
                                ![r].thumbPath = LocalThumbPath(out.thumbnail),
                                ![r].ffSpawns = @ + 1,
                                ![r].ffArgs = FfmpegArgs(FinalFile(r),
                                                         LocalThumbPath(out.thumbnail))]
            /\ UNCHANGED <<files, pub, log, received, chunks>>
  /\ UNCHANGED <<client, alive, proc, info, conn, handlers, subAt, chunks>>

\* downloadToFile(metadata.thumbnail, thumbPath) settles, then ffmpeg is
\* spawned.  out: "ok", "get" (axios.get rejects: no file), "pipe" (the
\* pipeline rejects after createWriteStream made the file).
ThumbDone(r, out, ffOk) ==
  LET thumbPath == IF out = "ok" THEN ThumbFile(r) ELSE NoPath IN
  /\ alive
  /\ dl[r].pc = "thumb"
  /\ out \in {"ok", "get", "pipe"}
  /\ (out = "ok" /\ ffOk) \/ budget > 0
  /\ budget' = IF out = "ok" /\ ffOk THEN budget ELSE budget - 1
  /\ files' = IF out = "get" THEN files ELSE files \cup {ThumbFile(r)}
  /\ dl' = [dl EXCEPT ![r].pc = FfmpegSpawned(ffOk),
                      ![r].thumbDl = out,
                      ![r].thumbPath = thumbPath,
                      ![r].ffSpawns = @ + 1,
                      ![r].ffArgs = FfmpegArgs(FinalFile(r), thumbPath)]
  /\ UNCHANGED <<client, alive, proc, info, pub, log, conn, handlers, received, subAt, chunks>>

\* ff.on('error'): embedMetadata rejects, the handler logs and goes on.
FfmpegError(r) ==
  /\ alive
  /\ dl[r].pc = "ffmpegEnoent"
  /\ Finish(r, files, TRUE, "error", FALSE)
  /\ UNCHANGED <<client, alive, proc, info, conn, handlers, subAt, chunks, budget>>

\* ffmpeg creates its output file tempPath.
FfmpegWrites(r) ==
  /\ alive
  /\ dl[r].pc = "ffmpeg"
  /\ TempFile(r) \notin files
  /\ files' = files \cup {TempFile(r)}
  /\ UNCHANGED <<client, alive, dl, proc, info, pub, log, conn, handlers, received, subAt, chunks, budget>>

\* A close callback that renames whatever the exit code.
RenamesAlways(code) == TRUE

\* ff.on('close'): the branch of line 239.
Renames(code) == code = 0

\* The body of that branch: renameSync(tempPath, filePath), then the thumbnail
\* is unlinked; a throwing rename skips the unlink.
Embedded(r, fs) ==
  IF TempFile(r) \in fs
    THEN ((fs \ {TempFile(r)}) \cup {FinalFile(r)})
           \ (IF dl[r].thumbPath # NoPath /\ IncludesThumb(dl[r].thumbPath)
                THEN {dl[r].thumbPath} ELSE {})
    ELSE fs

\* ff.on('close'): resolve or reject, then the handler finishes either way.
FfmpegClose(r, code) ==
  /\ alive
  /\ dl[r].pc = "ffmpeg"
  /\ code = 0 \/ budget > 0
  /\ budget' = IF code = 0 THEN budget ELSE budget - 1
  /\ Finish(r, IF Renames(code) THEN Embedded(r, files) ELSE files,
            code # 0,
            IF code = 0 THEN "ok" ELSE "failed",
            Renames(code) /\ TempFile(r) \in files)
  /\ UNCHANGED <<client, alive, proc, info, conn, handlers, subAt, chunks>>

\* ------------------------------------------------------------ Browser client
\* closeEventSource(): close and forget the EventSource; a closed EventSource
\* dispatches nothing more.
CloseEventSource(c) == [c EXCEPT !.eventSource = 0, !.read = 0]

\* The requests no page has issued yet, and the connections no page holds.
FreshRequests == {r \in DOMAIN dl : \A k \in Clients : \A m \in client[k].sent : m.id # r}
FreshConns ==
  {c \in Conns : conn[c] = "new" /\ \A k \in Clients : client[k].eventSource # c}
Least(S) == CHOOSE x \in S : \A y \in S : x <= y

\* startDownload(url, ...) up to its await of fetch: the guard on
\* isDownloading, the flags, a new EventSource, the POST.  It is called by the
\* click handler of a download button (which tests isDownloading too) and by
\* the confirm button of the audio dialog.
StartDownload(k, url) ==
  /\ ~client[k].isDownloading
  /\ FreshRequests # {} /\ FreshConns # {}
  /\ LET r == Least(FreshRequests)
         c == Least(FreshConns) IN
       client' = [client EXCEPT ![k] =
                    [CloseEventSource(@) EXCEPT
                       !.isDownloading = TRUE, !.downloadHandled = FALSE,
                       !.downloadFinalized = FALSE, !.disabled = TRUE,
                       !.eventSource = c,
                       !.sent = @ \cup {[id |-> r, url |-> url]},
                       !.pending = @ \cup {r}]]
  /\ UNCHANGED <<alive, dl, proc, info, files, pub, log, conn, handlers, received, subAt,
                 chunks, budget>>

\* handleProgressData(payload): the progress and status keys only change what
\* the page shows; the error branch and the complete branch run once per
\* downloadHandled.
HandleProgressData(c, d) ==
  LET e == IF d.error # "" /\ ~c.downloadHandled
             THEN [CloseEventSource(c) EXCEPT !.downloadHandled = TRUE,
                                              !.isDownloading = FALSE,
                                              !.disabled = FALSE]
             ELSE c
  IN IF d.complete /\ ~e.downloadHandled
       THEN [CloseEventSource(e) EXCEPT !.downloadHandled = TRUE,
                                        !.timers = Append(@, d.file)]
       ELSE e

\* The 'progress' listener of the EventSource: the next payload the server
\* wrote to the page's connection is dispatched.
ProgressEvent(k) ==
  LET c == client[k] IN
  /\ c.eventSource # 0
  /\ c.read < Len(received[c.eventSource])
  /\ client' = [client EXCEPT ![k] =
                  HandleProgressData([c EXCEPT !.read = @ + 1],
                                     received[c.eventSource][c.read + 1])]
  /\ UNCHANGED <<alive, dl, proc, info, files, pub, log, conn, handlers, received, subAt,
                 chunks, budget>>

\* The catch of startDownload, lines 714-730.
DownloadFailed(c) ==
  [CloseEventSource(c) EXCEPT !.isDownloading = FALSE, !.downloadHandled = FALSE,
                              !.disabled = FALSE]

\* startDownload after its awaits: the response of request r has arrived.
DownloadResponse(k, r) ==
  LET c    == [client[k] EXCEPT !.pending = @ \ {r}]
      resp == dl[r].response IN
  /\ r \in client[k].pending
  /\ resp # NoResponse
  /\ client' = [client EXCEPT ![k] =
                  IF resp.status # 200 THEN DownloadFailed(c)
                  ELSE IF resp.success /\ ~c.downloadHandled
                         THEN [c EXCEPT !.timers = Append(@, resp.file)]
                         ELSE c]
  /\ UNCHANGED <<alive, dl, proc, info, files, pub, log, conn, handlers, received, subAt,
                 chunks, budget>>

\* The fetch of request r rejects: the server process has died without
\* answering.
FetchRejected(k, r) ==
  /\ r \in client[k].pending
  /\ ~alive
  /\ dl[r].response = NoResponse
  /\ client' = [client EXCEPT ![k] = DownloadFailed([@ EXCEPT !.pending = @ \ {r}])]
  /\ UNCHANGED <<alive, dl, proc, info, files, pub, log, conn, handlers, received, subAt,
                 chunks, budget>>

\* downloadComplete(filename): once per downloadFinalized; it arms the timer
\* that clicks the download link.
DownloadComplete(c, filename) ==
  IF c.downloadFinalized THEN c
  ELSE [c EXCEPT !.downloadFinalized = TRUE, !.downloadHandled = TRUE,
                 !.isDownloading = FALSE, !.disabled = FALSE,
                 !.links = Append(@, filename),
                 !.finalized = Append(@, filename)]

\* The oldest 800 ms timer fires: downloadComplete(file).
FinalizeTimer(k) ==
  /\ client[k].timers # <<>>
  /\ client' = [client EXCEPT ![k] =
                  DownloadComplete([@ EXCEPT !.timers = Tail(@)], Head(client[k].timers))]
  /\ UNCHANGED <<alive, dl, proc, info, files, pub, log, conn, handlers, received, subAt,
                 chunks, budget>>

\* The oldest 500 ms timer fires: downloadLink.click() makes the browser
\* download /downloads/<file>.
LinkTimer(k) ==
  /\ client[k].links # <<>>
  /\ client' = [client EXCEPT ![k].links = Tail(@),
                              ![k].saved = @ \cup {Head(client[k].links)}]
  /\ UNCHANGED <<alive, dl, proc, info, files, pub, log, conn, handlers, received, subAt,
                 chunks, budget>>

\* What resetDownloader and clearSearchResultsAndInput do to the download
\* state.  clearTimeout(downloadTimeout) cancels the 30 s warning only, never
\* an 800 ms or 500 ms timer.
ResetFlags(c) ==
  [CloseEventSource(c) EXCEPT !.isDownloading = FALSE, !.downloadHandled = FALSE,
                              !.downloadFinalized = FALSE, !.disabled = FALSE]

\* resetDownloader(): the click on the new-download button.
ResetDownloader(k) ==
  /\ client' = [client EXCEPT ![k] = ResetFlags(@)]
  /\ client' # client
  /\ UNCHANGED <<alive, dl, proc, info, files, pub, log, conn, handlers, received, subAt,
                 chunks, budget>>

\* clearSearchResultsAndInput(): the click on a platform tab.
ClearSearchResultsAndInput(k) ==
  /\ client' = [client EXCEPT ![k] = ResetFlags(@)]
  /\ client' # client
  /\ UNCHANGED <<alive, dl, proc, info, files, pub, log, conn, handlers, received, subAt,
                 chunks, budget>>

\* ------------------------------------------------------------ specification
ExitCodes == {0, 1}

\* The progress streams.
NextProgress ==
  \/ \E c \in Conns : ProgressConnect(c)
  \/ \E c \in Conns : ProgressClose(c)

\* The /api/info requests and their processes.
NextInfo ==
  \/ \E i \in Infos, url \in BOOLEAN, ok \in BOOLEAN : PostInfo(i, url, ok)
  \/ \E i \in Infos : InfoError(i)
  \/ \E i \in Infos, out \in {"ok", "badjson", "nonzero"} : InfoClose(i, out)

\* The /api/download requests, their processes and timers.
NextDownload ==
  \/ \E r \in Downloads, url \in BOOLEAN, ok \in BOOLEAN : PostDownload(r, url, ok)
  \/ \E r \in Downloads, ok \in BOOLEAN : PauseElapsed(r, ok)
  \/ \E r \in Downloads, a \in Attempts, s \in Streams, t \in ChunkTexts :
        ExtractorChunk(r, a, s, t)
  \/ \E r \in Downloads, a \in Attempts :
        \E f \in {PartFile(r), FinalFile(r)} : ExtractorWrites(r, a, f)
  \/ \E r \in Downloads, a \in Attempts : ExtractorError(r, a)
  \/ \E r \in Downloads, a \in Attempts : KillTimeout(r, a)
  \/ \E r \in Downloads, a \in Attempts, code \in ExitCodes, ok \in BOOLEAN :
        ExtractorClose(r, a, code, ok)
  \/ \E r \in Downloads, a \in Attempts, code \in ExitCodes : ExtractorLateClose(r, a, code)
  \/ \E r \in Downloads : FetchInfoError(r)
  \/ \E r \in Downloads, out \in InfoResults, ok \in BOOLEAN :
        FetchInfoClose(r, out, ok)
  \/ \E r \in Downloads, out \in {"ok", "get", "pipe"}, ok \in BOOLEAN : ThumbDone(r, out, ok)
  \/ \E r \in Downloads : FfmpegError(r)
  \/ \E r \in Downloads : FfmpegWrites(r)
  \/ \E r \in Downloads, code \in ExitCodes : FfmpegClose(r, code)

Next == NextDownload \/ NextInfo \/ NextProgress

\* The whole server.
Spec == Init /\ [][Next]_vars

\* The server while only /api/download requests arrive.
SpecDownload == Init /\ [][NextDownload]_vars

\* The server while requests arrive and nobody listens to the progress stream.
SpecRequests == Init /\ [][NextDownload \/ NextInfo]_vars

\* The download requests and the progress streams, under a smaller budget of
\* failures.
InitBroadcast ==
  /\ alive = TRUE
  /\ dl = [r \in Downloads |-> NewDownload]
  /\ proc = [r \in Downloads |-> [a \in Attempts |-> "none"]]
  /\ info = [i \in Infos |-> NewInfo]
  /\ files = LocalImages
  /\ pub = [r \in Downloads |-> NoneEmitted]
  /\ log = <<>>
  /\ conn = [c \in Conns |-> "new"]
  /\ handlers = {}
  /\ received = [c \in Conns |-> <<>>]
  /\ subAt = [c \in Conns |-> 0]
  /\ chunks = 0
  /\ budget = MaxBroadcastFaults
  /\ client = [k \in Clients |-> NewClient]

SpecBroadcast == InitBroadcast /\ [][NextDownload \/ NextProgress]_vars

\* The download requests, for every pair of format identifiers a client may
\* send.
InitArgs ==
  /\ alive = TRUE
  /\ dl \in [Downloads -> {[NewDownload EXCEPT !.videoItag = v, !.audioItag = a] :
                             v \in Itags, a \in Itags}]
  /\ proc = [r \in Downloads |-> [a \in Attempts |-> "none"]]
  /\ info = [i \in Infos |-> NewInfo]
  /\ files = LocalImages
  /\ pub = [r \in Downloads |-> NoneEmitted]
  /\ log = <<>>
  /\ conn = [c \in Conns |-> "new"]
  /\ handlers = {}
  /\ received = [c \in Conns |-> <<>>]
  /\ subAt = [c \in Conns |-> 0]
  /\ chunks = 0
  /\ budget = MaxFaults
  /\ client = [k \in Clients |-> NewClient]

SpecArgs == InitArgs /\ [][NextDownload]_vars

\* The requests with timers that fire and queued 'error' events that are
\* delivered, while processes may run for ever.  The budget covers every
\* failure the requests can meet (three attempts, or two and the thumbnail
\* and ffmpeg), so that it never keeps a timer from firing.
InitRetry ==
  /\ alive = TRUE
  /\ dl = [r \in Downloads |-> NewDownload]
  /\ proc = [r \in Downloads |-> [a \in Attempts |-> "none"]]
  /\ info = [i \in Infos |-> NewInfo]
  /\ files = LocalImages
  /\ pub = [r \in Downloads |-> NoneEmitted]
  /\ log = <<>>
  /\ conn = [c \in Conns |-> "new"]
  /\ handlers = {}
  /\ received = [c \in Conns |-> <<>>]
  /\ subAt = [c \in Conns |-> 0]
  /\ chunks = 0
  /\ budget = (maxRetries + 1) * NumDownloads
  /\ client = [k \in Clients |-> NewClient]

TimersFire ==
  \A r \in Downloads :
    /\ WF_vars(\E a \in Attempts : KillTimeout(r, a))
    /\ WF_vars(\E ok \in BOOLEAN : PauseElapsed(r, ok))
    /\ WF_vars(\E a \in Attempts : ExtractorError(r, a))

SpecRetry == InitRetry /\ [][NextDownload \/ NextInfo]_vars /\ TimersFire

\* The /api/info requests, for every format list the Extractor may print.
InitTranslate ==
  /\ alive = TRUE
  /\ dl = [r \in Downloads |-> NewDownload]
  /\ proc = [r \in Downloads |-> [a \in Attempts |-> "none"]]
  /\ info \in [Infos -> {[NewInfo EXCEPT !.json = j] :
                           j \in {NoFormats} \cup
                                 {[present |-> TRUE, formats |-> WithIds(l)] :
                                    l \in FormatLists(MaxFormats)}}]
  /\ files = LocalImages
  /\ pub = [r \in Downloads |-> NoneEmitted]
  /\ log = <<>>
  /\ conn = [c \in Conns |-> "new"]
  /\ handlers = {}
  /\ received = [c \in Conns |-> <<>>]
  /\ subAt = [c \in Conns |-> 0]
  /\ chunks = 0
  /\ budget = MaxFaults
  /\ client = [k \in Clients |-> NewClient]

SpecTranslate == InitTranslate /\ [][NextInfo]_vars

\* The pages and the server: a request reaches the server after a page has
\* sent it, a progress connection after a page has opened its EventSource,
\* and the server sees a connection close once no page holds it.  The videos
\* have no thumbnail, and the chunks of Extractor output are left out: their
\* payloads only move the progress bar of a page.
InFlight(r, url) ==
  \E k \in Clients : r \in client[k].pending /\ [id |-> r, url |-> url] \in client[k].sent

\* What the user, the timers and the network make a page do.
NextPage ==
  \/ \E k \in Clients, url \in BOOLEAN : StartDownload(k, url)
  \/ \E k \in Clients : ProgressEvent(k)
  \/ \E k \in Clients, r \in DOMAIN dl : DownloadResponse(k, r)
  \/ \E k \in Clients : FinalizeTimer(k)
  \/ \E k \in Clients : LinkTimer(k)
  \/ \E k \in Clients : ResetDownloader(k)
  \/ \E k \in Clients : ClearSearchResultsAndInput(k)

\* The server's steps for the requests and connections of the pages.
NextServed ==
  \/ \E r \in DOMAIN dl, url \in BOOLEAN, ok \in BOOLEAN :
        InFlight(r, url) /\ PostDownload(r, url, ok)
  \/ \E r \in DOMAIN dl, a \in Attempts : ExtractorWrites(r, a, FinalFile(r))
  \/ \E r \in DOMAIN dl, a \in Attempts, code \in ExitCodes, ok \in BOOLEAN :
        ExtractorClose(r, a, code, ok)
  \/ \E r \in DOMAIN dl, ok \in BOOLEAN :
        FetchInfoClose(r, [ok |-> TRUE, thumbnail |-> NoThumbnail], ok)
  \/ \E r \in DOMAIN dl : FfmpegWrites(r)
  \/ \E r \in DOMAIN dl, code \in ExitCodes : FfmpegClose(r, code)
  \/ \E c \in Conns : (\E k \in Clients : client[k].eventSource = c) /\ ProgressConnect(c)
  \/ \E c \in Conns : (\A k \in Clients : client[k].eventSource # c) /\ ProgressClose(c)

\* The steps that follow a failure.
NextFailed ==
  \/ \E r \in DOMAIN dl, ok \in BOOLEAN : PauseElapsed(r, ok)
  \/ \E r \in DOMAIN dl, a \in Attempts : ExtractorError(r, a)
  \/ \E r \in DOMAIN dl, a \in Attempts : KillTimeout(r, a)
  \/ \E r \in DOMAIN dl, a \in Attempts, code \in ExitCodes : ExtractorLateClose(r, a, code)
  \/ \E r \in DOMAIN dl : FetchInfoError(r)
  \/ \E r \in DOMAIN dl : FfmpegError(r)
  \/ \E k \in Clients, r \in DOMAIN dl : FetchRejected(k, r)

\* Pages that start MaxStarts downloads between them, while nothing fails.
InitPages ==
  /\ alive = TRUE
  /\ dl = [r \in Started |-> NewDownload]
  /\ proc = [r \in Started |-> [a \in Attempts |-> "none"]]
  /\ info = [i \in Infos |-> NewInfo]
  /\ files = LocalImages
  /\ pub = [r \in Started |-> NoneEmitted]
  /\ log = <<>>
  /\ conn = [c \in Conns |-> "new"]
  /\ handlers = {}
  /\ received = [c \in Conns |-> <<>>]
  /\ subAt = [c \in Conns |-> 0]
  /\ chunks = 0
  /\ budget = 0
  /\ client = [k \in Clients |-> NewClient]

SpecPages == InitPages /\ [][NextPage \/ NextServed]_vars

\* Pages that start the downloads of Downloads, while failures happen.
InitPage ==
  /\ alive = TRUE
  /\ dl = [r \in Downloads |-> NewDownload]
  /\ proc = [r \in Downloads |-> [a \in Attempts |-> "none"]]
  /\ info = [i \in Infos |-> NewInfo]
  /\ files = LocalImages
  /\ pub = [r \in Downloads |-> NoneEmitted]
  /\ log = <<>>
  /\ conn = [c \in Conns |-> "new"]
  /\ handlers = {}
  /\ received = [c \in Conns |-> <<>>]
  /\ subAt = [c \in Conns |-> 0]
  /\ chunks = 0
  /\ budget = MaxPageFaults
  /\ client = [k \in Clients |-> NewClient]

\* The browser dispatches what has arrived: the events of an open EventSource,
\* the responses, the timers that are due.  What the user does and what the
\* server does is not forced.
PageFair ==
  \A k \in Clients :
    /\ WF_vars(ProgressEvent(k))
    /\ WF_vars(FinalizeTimer(k))
    /\ WF_vars(LinkTimer(k))
    /\ \A r \in Downloads : WF_vars(DownloadResponse(k, r))

SpecPage == InitPage /\ [][NextPage \/ NextServed \/ NextFailed]_vars /\ PageFair

\* Requests in flight together in the one downloads directory.  The info
\* document may also name, as a local thumbnail, a file another request (or
\* the request itself) keeps there.  The chunks of Extractor output are left
\* out: they touch no file.
DirResults ==
  InfoResults \cup
  {[ok |-> TRUE, thumbnail |-> [kind |-> "path", file |-> f]] :
     f \in UNION {{FinalFile(q), PartFile(q), TempFile(q)} : q \in Started}}

NextFiles ==
  \/ \E r \in DOMAIN dl, url \in BOOLEAN, ok \in BOOLEAN : PostDownload(r, url, ok)
  \/ \E r \in DOMAIN dl, ok \in BOOLEAN : PauseElapsed(r, ok)
  \/ \E r \in DOMAIN dl, a \in Attempts :
        \E f \in {PartFile(r), FinalFile(r)} : ExtractorWrites(r, a, f)
  \/ \E r \in DOMAIN dl, a \in Attempts : ExtractorError(r, a)
  \/ \E r \in DOMAIN dl, a \in Attempts : KillTimeout(r, a)
  \/ \E r \in DOMAIN dl, a \in Attempts, code \in ExitCodes, ok \in BOOLEAN :
        ExtractorClose(r, a, code, ok)
  \/ \E r \in DOMAIN dl, a \in Attempts, code \in ExitCodes : ExtractorLateClose(r, a, code)
  \/ \E r \in DOMAIN dl : FetchInfoError(r)
  \/ \E r \in DOMAIN dl, out \in DirResults, ok \in BOOLEAN : FetchInfoClose(r, out, ok)
  \/ \E r \in DOMAIN dl, out \in {"ok", "get", "pipe"}, ok \in BOOLEAN : ThumbDone(r, out, ok)
  \/ \E r \in DOMAIN dl : FfmpegError(r)
  \/ \E r \in DOMAIN dl : FfmpegWrites(r)
  \/ \E r \in DOMAIN dl, code \in ExitCodes : FfmpegClose(r, code)

InitFiles ==
  /\ alive = TRUE
  /\ dl = [r \in Started |-> NewDownload]
  /\ proc = [r \in Started |-> [a \in Attempts |-> "none"]]
  /\ info = [i \in Infos |-> NewInfo]
  /\ files = LocalImages
  /\ pub = [r \in Started |-> NoneEmitted]
  /\ log = <<>>
  /\ conn = [c \in Conns |-> "new"]
  /\ handlers = {}
  /\ received = [c \in Conns |-> <<>>]
  /\ subAt = [c \in Conns |-> 0]
  /\ chunks = 0
  /\ budget = MaxFileFaults
  /\ client = [k \in Clients |-> NewClient]

SpecFiles == InitFiles /\ [][NextFiles]_vars


\* =================================================================== claims
\* The attempts of request r that were started, and those that ended in failure.
Attempted(r) == {a \in Attempts : proc[r][a] # "none"}
FailedAttempts(r) ==
  {a \in Attempts : proc[r][a] \in {"failed", "killed", "closed", "exited", "nofile"}}

\* C1 as stated: a /api/download request spawns the Extractor at most 3 times
\* altogether; when its 3 attempts have failed it is answered 500, not with
\* success, and has emitted no 'complete'.
C1_SpawnedAtMostThrice ==
  \A r \in Downloads :
    /\ dl[r].spawns <= maxRetries
    /\ dl[r].retryCount = maxRetries =>
         /\ dl[r].response.status = 500
         /\ ~dl[r].response.success
         /\ pub[r].complete = 0

\* C1 amended: at most 3 download attempts are started, and the Extractor is
\* spawned one more time only by the metadata re-fetch that follows a
\* successful attempt (at most 4 spawns); when the 3 attempts have failed the
\* request is answered 500, not with success, and has emitted no 'complete'.
C1_AttemptsAtMostThrice ==
  \A r \in Downloads :
    /\ Cardinality(Attempted(r)) <= maxRetries
    /\ dl[r].spawns = Cardinality(Attempted(r)) + (IF dl[r].downloadSuccess THEN 1 ELSE 0)
    /\ dl[r].retryCount <= maxRetries
    /\ dl[r].retryCount = maxRetries =>
         /\ dl[r].response.status = 500
         /\ ~dl[r].response.success
         /\ ~dl[r].downloadSuccess
         /\ pub[r].complete = 0

\* C1 witness: a request whose three attempts failed and that was answered 500.
C1_Witness ==
  \E r \in Downloads :
    /\ Cardinality(FailedAttempts(r)) = maxRetries
    /\ dl[r].response.status = 500

\* C2: a request whose first attempt failed and whose second succeeded is
\* answered exactly like one whose first attempt succeeded, {success:true,
\* file:'<id>.mp4'}, and has emitted exactly one retry announcement (none when
\* the first attempt succeeded).
C2_TransientFailure ==
  \A r \in Downloads :
    (dl[r].pc = "done" /\ dl[r].downloadSuccess) =>
      /\ dl[r].response = DownloadOk(r)
      /\ dl[r].retryCount = 0 => pub[r].retry = 0
      /\ dl[r].retryCount = 1 => pub[r].retry = 1

\* C2 witness: answered with success after exactly one failed attempt.
C2_Witness ==
  \E r \in Downloads :
    /\ dl[r].response = DownloadOk(r)
    /\ dl[r].retryCount = 1
    /\ proc[r][2] = "resolved"

\* C3: success is answered only after an attempt closed with code 0 while
\* <id>.mp4 existed, and the file named in the answer is in downloadsDir; an
\* attempt that closed with code 0 without the file counts as failed and is
\* retried (or, as the third one, ends the request with 500).
C3_SuccessNeedsFile ==
  \A r \in Downloads :
    /\ dl[r].response.success =>
         /\ \E a \in Attempts : proc[r][a] = "resolved"
         /\ dl[r].response.file = r
         /\ FinalFile(r) \in files
    /\ \A a \in Attempts :
         proc[r][a] = "nofile" =>
           /\ dl[r].retryCount >= a
           /\ a < maxRetries => (dl[r].pc = "pause" \/ proc[r][a + 1] # "none")
           /\ a = maxRetries => dl[r].response.status = 500

\* C3 witness: answered with success after an attempt that exited 0 without
\* the file.
C3_Witness ==
  \E r \in Downloads :
    /\ dl[r].response.success
    /\ \E a \in Attempts : proc[r][a] = "nofile"

\* C4 as stated: once an attempt succeeded, the request is answered with
\* success whatever the metadata step does: when the handler has finished, or
\* the process has stopped, the answer is {success:true}.
C4_MetadataNeverFatal ==
  \A r \in Downloads :
    (dl[r].downloadSuccess /\ (dl[r].pc = "done" \/ ~alive)) =>
      dl[r].response = DownloadOk(r)

\* The failures of the metadata step that the handler's catch sees (a failed
\* re-fetch exit or parse, ffmpeg's 'error' or non-zero exit) leave the answer
\* a success.
C4_CaughtFailuresSwallowed ==
  \A r \in Downloads : dl[r].metaErr => dl[r].response = DownloadOk(r)

\* C5 as stated: after a request was answered 500 no file whose name starts
\* with its id is in downloadsDir.
C5_NoFileAfterFailure ==
  \A r \in Downloads :
    dl[r].response.status = 500 => ~ \E f \in files : StartsWithId(f, r)

\* C6 as stated: every 500 answer is mirrored by an error event: a failed
\* /api/download request has emitted one, and the error events emitted are at
\* least as many as the requests answered 500.
Answered500 ==
  Cardinality({r \in Downloads : dl[r].response.status = 500})
  + Cardinality({i \in Infos : info[i].response.status = 500})

RECURSIVE ErrorsEmitted(_)
ErrorsEmitted(n) == IF n = 0 THEN 0 ELSE pub[n].error + ErrorsEmitted(n - 1)

C6_FailuresMirrored ==
  /\ \A r \in Downloads : dl[r].response.status = 500 => pub[r].error > 0
  /\ ErrorsEmitted(NumDownloads) >= Answered500

\* C7: every connection has been written exactly the payloads emitted while
\* it was subscribed, once each and in emission order: an open connection all
\* those emitted since it subscribed, a closed one a run of them that starts
\* where it subscribed, a connection that never subscribed nothing.
C7_Broadcast ==
  \A c \in Conns :
    /\ conn[c] = "new" => received[c] = <<>>
    /\ conn[c] = "open" => received[c] = SubSeq(log, subAt[c] + 1, Len(log))
    /\ conn[c] = "closed" =>
         received[c] = SubSeq(log, subAt[c] + 1, subAt[c] + Len(received[c]))

\* C7 witness: a connection that subscribed after payloads had been emitted
\* and has since been written several.
C7_Witness ==
  \E c \in Conns :
    /\ conn[c] = "open"
    /\ subAt[c] > 0
    /\ Len(received[c]) >= 2

\* C8: the listeners of progressEmitter are exactly the handlers of the open
\* connections, and nothing more is written to a connection once it closed.
C8_Unsubscribe ==
  /\ [](handlers = {c \in Conns : conn[c] = "open"})
  /\ [][\A c \in Conns : conn[c] = "closed" => received'[c] = received[c]]_vars

\* C8 witness: payloads were emitted after a connection closed, and it was
\* not written them.
C8_Witness ==
  \E c \in Conns :
    /\ conn[c] = "closed"
    /\ Len(log) > subAt[c] + Len(received[c])

\* C9: a request without a URL is answered 400 by the callback that receives
\* it; it has spawned nothing, emitted nothing and has no file.
C9_MissingUrl ==
  /\ \A r \in Downloads :
       (dl[r].pc # "new" /\ ~dl[r].url) =>
         /\ dl[r].pc = "done"
         /\ dl[r].response = BadRequest
         /\ dl[r].spawns = 0
         /\ \A a \in Attempts : proc[r][a] = "none"
         /\ pub[r] = NoneEmitted
         /\ ~ \E f \in files : f.id = r
  /\ \A i \in Infos :
       (info[i].pc # "new" /\ ~info[i].url) =>
         /\ info[i].pc = "done"
         /\ info[i].response = BadRequest
         /\ info[i].spawns = 0

\* C9 witness: both kinds of request were answered 400.
C9_Witness ==
  /\ \E r \in Downloads : dl[r].response = BadRequest
  /\ \E i \in Infos : info[i].response = BadRequest

\* C10: a /api/info request with a URL spawns the Extractor exactly once, and
\* after a non-zero exit, a failed spawn or unparseable output it is answered
\* 500 with an error message.
C10_InfoNotRetried ==
  \A i \in Infos :
    /\ info[i].spawns <= 1
    /\ (info[i].pc # "new" /\ info[i].url) => info[i].spawns = 1
    /\ info[i].outcome \in {"nonzero", "spawn", "badjson"} =>
         /\ info[i].response.status = 500
         /\ info[i].response.error # ""

\* C10 witness: a /api/info request answered 500 after unparseable output.
C10_Witness ==
  \E i \in Infos :
    /\ info[i].outcome = "badjson"
    /\ info[i].response.status = 500
    /\ info[i].spawns = 1

\* C11: when killTimeout fires, the attempt's process is still running; it is
\* sent the kill signal, 'Download timed out' is published, and the attempt
\* fails like one that exited non-zero: retryCount grows by one and the loop
\* pauses before a retry, or answers 500 after the third failure.  When the
\* process closes, or its spawn fails, before that, the timer is cleared and
\* never fires.
C11_TimerFires(r, a) ==
  (dl[r].timer[a] # "fired" /\ dl'[r].timer[a] = "fired") =>
    /\ dl[r].timer[a] = "armed"
    /\ proc[r][a] = "running"
    /\ proc'[r][a] = "killed"
    /\ "Download timed out" \in pub'[r].errors
    /\ pub'[r].error = pub[r].error + 1
    /\ dl'[r].retryCount = dl[r].retryCount + 1
    /\ dl'[r].retryCount = a
    /\ IF a < maxRetries
         THEN dl'[r].pc = "pause" /\ dl'[r].response = NoResponse
         ELSE dl'[r].pc = "done" /\ dl'[r].response.status = 500

C11_Timeout ==
  /\ [](\A r \in Downloads, a \in Attempts :
          /\ proc[r][a] \in {"resolved", "nofile", "exited", "failed"} =>
                dl[r].timer[a] = "cleared"
          /\ proc[r][a] \in {"running", "enoent"} => dl[r].timer[a] = "armed"
          /\ proc[r][a] = "killed" => dl[r].timer[a] = "fired"
          /\ proc[r][a] = "closed" => dl[r].timer[a] \in {"cleared", "fired"})
  /\ [][\A r \in Downloads, a \in Attempts :
          /\ C11_TimerFires(r, a)
          /\ dl[r].timer[a] = "cleared" => dl'[r].timer[a] = "cleared"]_vars

\* C11 witness: one attempt timed out and is being retried after an earlier
\* attempt closed with its timer cleared.
C11_Witness ==
  \E r \in Downloads :
    /\ proc[r][1] = "exited" /\ dl[r].timer[1] = "cleared"
    /\ proc[r][2] = "killed" /\ dl[r].timer[2] = "fired"
    /\ dl[r].pc = "pause"
    /\ dl[r].retryCount = 2

\* C12: a request answered with success has emitted 'complete' exactly once,
\* in the callback that ends the metadata step (done, failed or skipped) and
\* that then sends the answer; the callbacks of the attempts emit none, and a
\* request answered 400 or 500 has emitted none.
C12_CompleteOnce ==
  /\ [](\A r \in Downloads :
          /\ pub[r].complete <= 1
          /\ dl[r].response.success <=> pub[r].complete = 1
          /\ pub[r].complete = 1 => (dl[r].pc = "done" /\ dl[r].downloadSuccess)
          /\ dl[r].response.status \in {400, 500} => pub[r].complete = 0)
  /\ [][\A r \in Downloads :
          pub'[r].complete # pub[r].complete =>
            /\ dl[r].pc \in {"fetchInfo", "ffmpeg", "ffmpegEnoent"}
            /\ dl[r].response = NoResponse
            /\ dl'[r].response = DownloadOk(r)
            /\ proc' = proc]_vars

\* C12 witness: success after a retry and a failed metadata step, with one
\* 'complete' emitted.
C12_Witness ==
  \E r \in Downloads :
    /\ dl[r].response.success
    /\ dl[r].metaErr
    /\ pub[r].retry = 1
    /\ pub[r].complete = 1

\* What C13 says of request r.
FormatSelected(r) ==
  dl[r].filteredArgs # <<>> =>
    /\ OptionValue(dl[r].filteredArgs, "-f") =
         (IF Truthy(dl[r].videoItag) /\ Truthy(dl[r].audioItag)
            THEN dl[r].videoItag \o "+" \o dl[r].audioItag
          ELSE IF Truthy(dl[r].videoItag) THEN dl[r].videoItag
          ELSE "bestvideo+bestaudio")
    /\ \A a \in Attempts : proc[r][a] # "none" => dl[r].argv[a] = dl[r].filteredArgs

\* C13 as stated: the value the Extractor reads for -f is videoItag+audioItag
\* when both are given, videoItag when only it is given and
\* 'bestvideo+bestaudio' otherwise; every attempt is spawned with the same
\* argument list.
C13_FormatSelection == \A r \in Downloads : FormatSelected(r)

\* The statement of C13 holds except for a blank video identifier sent without
\* an audio identifier, and the retries reuse the argument list in every case.
C13_NonBlankFormatSelection ==
  \A r \in Downloads :
    /\ ~(Truthy(dl[r].videoItag) /\ Blank(dl[r].videoItag) /\ ~Truthy(dl[r].audioItag))
         => FormatSelected(r)
    /\ \A a \in Attempts : proc[r][a] # "none" => dl[r].argv[a] = dl[r].filteredArgs

\* How often the entry with format_id k is in a list of translated formats.
Occurrences(list, k) == Cardinality({n \in 1..Len(list) : list[n].itag = k})

\* C14: in a 200 answer every entry of the Extractor's format list is in the
\* video formats iff its vcodec is not 'none', in the audio formats iff its
\* vcodec is 'none' and its acodec is not, at most once and never in both,
\* and nothing else is in the lists; an absent format list gives two empty
\* lists.
C14_Partition ==
  \A i \in Infos :
    info[i].outcome = "ok" =>
      LET fs == info[i].json.formats
          vs == info[i].formats
          as == info[i].audioFormats
      IN /\ \A k \in 1..Len(fs) :
              /\ Occurrences(vs, k) = (IF fs[k].vcodec # "none" THEN 1 ELSE 0)
              /\ Occurrences(as, k) =
                   (IF fs[k].vcodec = "none" /\ fs[k].acodec # "none" THEN 1 ELSE 0)
              /\ Occurrences(vs, k) + Occurrences(as, k) <= 1
         /\ \A n \in 1..Len(vs) : vs[n].itag \in 1..Len(fs)
         /\ \A n \in 1..Len(as) : as[n].itag \in 1..Len(fs)
         /\ ~info[i].json.present => (vs = <<>> /\ as = <<>>)

\* C14 witness: a 200 answer for a list with a video entry, an audio entry
\* and an entry that is neither.
C14_Witness ==
  \E i \in Infos :
    /\ info[i].outcome = "ok"
    /\ Len(info[i].json.formats) = 3
    /\ Len(info[i].formats) = 1
    /\ Len(info[i].audioFormats) = 1

\* C15: the video formats of a 200 answer are in descending order of the
\* number their resolution label starts with, a label without one counting as
\* 0; those entries come last, in the order the Extractor listed them.  The
\* audio formats are in descending order of bitrate.
C15_Sorted ==
  \A i \in Infos :
    info[i].outcome = "ok" =>
      LET vs == info[i].formats
          as == info[i].audioFormats
      IN /\ \A m, n \in 1..Len(vs) :
              m < n =>
                /\ ParseIntOrZero(vs[m].resolution) >= ParseIntOrZero(vs[n].resolution)
                /\ ~IsDigit(Head(vs[m].resolution)) =>
                     /\ ~IsDigit(Head(vs[n].resolution))
                     /\ vs[m].itag < vs[n].itag
         /\ \A m, n \in 1..Len(as) : m < n => as[m].bitrate >= as[n].bitrate

\* C15 witness: a 200 answer in which a numbered resolution was moved ahead of
\* two unnumbered ones, which kept their order.
C15_Witness ==
  \E i \in Infos :
    /\ info[i].outcome = "ok"
    /\ Len(info[i].formats) = 3
    /\ info[i].formats[1].itag = 2
    /\ info[i].formats[2].itag = 1
    /\ info[i].formats[3].itag = 3
    /\ ParseIntOrZero(info[i].formats[1].resolution) = 1080
    /\ info[i].formats[2].resolution = <<"H", "D">>

\* C16 as stated: after ffmpeg exited 0 and its output was renamed over
\* <id>.mp4, the temporary file is gone, a thumbnail that embedMetadata
\* downloaded is deleted, and a local image that was used as thumbnail still
\* exists.
C16_OnlyDownloadedThumbDeleted ==
  \A r \in Downloads :
    (dl[r].ff = "ok" /\ dl[r].tagged) =>
      /\ FinalFile(r) \in files
      /\ TempFile(r) \notin files
      /\ dl[r].thumbDl = "ok" => ThumbFile(r) \notin files
      /\ dl[r].thumbnail.kind = "path" => dl[r].thumbPath \in files \cup {NoPath}

\* The part of C16 about the file and the downloaded thumbnail holds.
C16_DownloadedThumbDeleted ==
  \A r \in Downloads :
    (dl[r].ff = "ok" /\ dl[r].tagged) =>
      /\ FinalFile(r) \in files
      /\ TempFile(r) \notin files
      /\ dl[r].thumbDl = "ok" => ThumbFile(r) \notin files

\* C17: embedMetadata spawns ffmpeg exactly once; the image is its second
\* input, with the attached_pic disposition, iff the thumbnail was downloaded
\* or is an existing local path; otherwise (a value that is neither, or a
\* failed download) ffmpeg gets the file alone, and nothing is raised: the
\* handler's catch sees an error only when the re-fetch or ffmpeg failed.
C17_ThumbAvailable(r) ==
  \/ dl[r].pc = "thumb" /\ dl'[r].thumbDl = "ok"
  \/ /\ dl[r].pc = "fetchInfo"
     /\ dl'[r].thumbnail.kind = "path"
     /\ dl'[r].thumbnail.file \in files

C17_TranscoderOnce ==
  /\ [](\A r \in Downloads :
          /\ dl[r].ffSpawns <= 1
          /\ dl[r].pc \in {"ffmpeg", "ffmpegEnoent"} => dl[r].ffSpawns = 1
          /\ dl[r].response.success =>
                \/ dl[r].ffSpawns = 1 /\ dl[r].ff \in {"ok", "failed", "error"}
                \/ dl[r].ffSpawns = 0 /\ dl[r].ff = "none" /\ dl[r].metaErr
                   /\ dl[r].thumbnail = NoThumbnail /\ dl[r].thumbDl = "none"
          /\ dl[r].ff = "ok" => ~dl[r].metaErr)
  /\ [][\A r \in Downloads :
          dl'[r].ffSpawns # dl[r].ffSpawns =>
            /\ dl'[r].pc \in {"ffmpeg", "ffmpegEnoent"}
            /\ IF C17_ThumbAvailable(r)
                 THEN /\ dl'[r].ffArgs.attachedPic
                      /\ dl'[r].ffArgs.inputs = <<FinalFile(r), dl'[r].thumbPath>>
                      /\ dl'[r].thumbPath \in files'
                 ELSE /\ ~dl'[r].ffArgs.attachedPic
                      /\ dl'[r].ffArgs.inputs = <<FinalFile(r)>>]_vars

\* C17 witness: ffmpeg exited 0 on a tag-only run after the thumbnail
\* download failed, and the metadata step raised nothing.
C17_Witness ==
  \E r \in Downloads :
    /\ dl[r].thumbDl \in {"get", "pipe"}
    /\ dl[r].ff = "ok"
    /\ ~dl[r].ffArgs.attachedPic
    /\ ~dl[r].metaErr
    /\ dl[r].response.success

\* C18: when ffmpeg exits non-zero or fails to spawn, embedMetadata rejects
\* (the handler's catch sees it), <id>.mp4 is still the Extractor's file, the
\* temporary output is not renamed, and the request is answered with success
\* for that file.
C18_FailedEmbedKeepsFile ==
  /\ [](\A r \in Downloads :
          dl[r].ff \in {"failed", "error"} =>
            /\ dl[r].metaErr
            /\ ~dl[r].tagged
            /\ FinalFile(r) \in files
            /\ dl[r].response = DownloadOk(r))
  /\ [][\A r \in Downloads :
          (dl[r].ff = "none" /\ dl'[r].ff \in {"failed", "error"}) =>
            /\ FinalFile(r) \in files
            /\ TempFile(r) \in files => TempFile(r) \in files']_vars

\* C18 witness: ffmpeg wrote its output and exited non-zero; the request was
\* answered with the file as the Extractor left it.
C18_Witness ==
  \E r \in Downloads :
    /\ dl[r].ff = "failed"
    /\ TempFile(r) \in files
    /\ ~dl[r].tagged
    /\ dl[r].response = DownloadOk(r)

\* The state of the retry loop of request r.
LoopState(r) ==
  CASE dl[r].pc = "attempt"        -> "Attempting"
    [] dl[r].pc = "pause"          -> "Retrying"
    [] dl[r].downloadSuccess       -> "Succeeded"
    [] dl[r].response.status = 500 -> "Failed"
    [] OTHER                       -> "Idle"

LoopStep(r) ==
  LET from == LoopState(r)
      to   == LoopState(r)'
  IN \/ from = to /\ \A a \in Attempts : proc[r][a] = "none" <=> proc'[r][a] = "none"
     \/ from = "Idle" /\ to = "Attempting" /\ proc[r][1] = "none" /\ proc'[r][1] # "none"
     \/ from = "Attempting" /\ to = "Succeeded"
     \/ from = "Attempting" /\ to = "Retrying" /\ dl'[r].retryCount < maxRetries
     \/ from = "Attempting" /\ to = "Failed" /\ dl'[r].retryCount = maxRetries
     \/ /\ from = "Retrying" /\ to = "Attempting"
        /\ proc[r][dl[r].retryCount + 1] = "none"
        /\ proc'[r][dl[r].retryCount + 1] # "none"

\* The transitions and the bound of the retry loop.
RetryLoopSteps ==
  /\ [][\A r \in Downloads : LoopStep(r)]_vars
  /\ [](\A r \in Downloads :
          /\ Cardinality(Attempted(r)) <= maxRetries
          /\ LoopState(r) = "Retrying" => dl[r].retryCount < maxRetries
          /\ LoopState(r) = "Attempting" =>
                /\ dl[r].retryCount < maxRetries
                /\ proc[r][dl[r].retryCount + 1] \in {"running", "enoent"}
          /\ \A a \in Attempts : proc[r][a] = "running" => budget > 0)

\* C19 as stated: the retry loop moves Attempting -> Succeeded | Retrying |
\* Failed and Retrying -> Attempting only; an attempt is spawned only on
\* entering Attempting, a pause follows every failure but the third, and when
\* timers fire the loop reaches Succeeded or Failed after at most 3 attempts,
\* whether or not the Extractor processes ever exit.
C19_RetryLoop ==
  /\ RetryLoopSteps
  /\ \A r \in Downloads :
       (LoopState(r) \in {"Attempting", "Retrying"})
         ~> (LoopState(r) \in {"Succeeded", "Failed"})

\* The loop does all that as long as the server process is not ended by an
\* uncaught exception of another callback.
C19_RetryLoopWhileAlive ==
  /\ RetryLoopSteps
  /\ \A r \in Downloads :
       (LoopState(r) \in {"Attempting", "Retrying"})
         ~> (LoopState(r) \in {"Succeeded", "Failed"} \/ ~alive)

\* C20 as stated: every payload emitted with a progress key has a value
\* between 0 and 100.
C20_PercentInRange ==
  \A n \in 1..Len(log) :
    log[n].progress # -1 => (0 <= log[n].progress /\ log[n].progress <= 100)

\* C21 as stated: while a /api/download request of a page is outstanding the
\* page's isDownloading is true and its download buttons are disabled, and a
\* page never has two requests outstanding.
C21_OneOutstanding ==
  \A k \in Clients :
    /\ Cardinality(client[k].pending) <= 1
    /\ client[k].pending # {} => client[k].isDownloading /\ client[k].disabled

\* C21: a page has two /api/download requests outstanding.
C21_TwoOutstanding == \E k \in Clients : Cardinality(client[k].pending) > 1

\* C21: an error event of a failed attempt has re-enabled the page while the
\* server is still retrying the page's request.
C21_EnabledWhileRetrying ==
  \E k \in Clients : \E r \in client[k].pending :
    /\ dl[r].pc \in {"pause", "attempt"}
    /\ client[k].downloadHandled /\ ~client[k].isDownloading /\ ~client[k].disabled

\* C22 as stated: no request is answered twice: a /api/info handler calls
\* res.json at most once, and the answer of a /api/download request, once
\* sent, is the only one the handler sends.
C22_AnsweredOnce ==
  /\ \A i \in Infos : info[i].sends <= 1
  /\ \A r \in Downloads : dl[r].response # NoResponse => dl[r].pc = "done"

\* C23 as stated: of the Extractor processes spawned by the attempts of one
\* request, at most one is alive (running, or sent the kill signal and not
\* yet closed) at any time.
C23_OneExtractorAlive ==
  \A r \in Downloads :
    Cardinality({a \in Attempts : proc[r][a] \in {"running", "killed"}}) <= 1

\* C24 as stated: once the server has answered a page's /api/download request
\* with success and file F, the page eventually runs downloadComplete(F) to
\* effect.
Finalized(k, f) == \E n \in 1..Len(client[k].finalized) : client[k].finalized[n] = f

C24_SuccessFinalized ==
  \A k \in Clients, r \in Downloads :
    ((\E m \in client[k].sent : m.id = r) /\ dl[r].response.success)
      ~> Finalized(k, dl[r].response.file)

\* C24: the same while no attempt of the request has failed.
C24_SuccessFinalizedWithoutRetry ==
  \A k \in Clients, r \in Downloads :
    ((\E m \in client[k].sent : m.id = r) /\ dl[r].response.success
        /\ pub[r].error = 0)
      ~> Finalized(k, dl[r].response.file)

\* C25 as stated: every file a page has finalized with, and every file whose
\* download it has triggered, is the file of a request the page itself sent.
Own(k) == {m.id : m \in client[k].sent}

C25_OwnFileOnly ==
  \A k \in Clients :
    /\ \A n \in 1..Len(client[k].finalized) : client[k].finalized[n] \in Own(k)
    /\ client[k].saved \subseteq Own(k)

\* C25: a page has triggered the browser download of another page's file.
C25_SavedForeignFile == \E k \in Clients : ~(client[k].saved \subseteq Own(k))

\* C26 as stated: for every download a page started, downloadComplete takes
\* effect at most once.
TimesFinalized(k, f) ==
  Cardinality({n \in 1..Len(client[k].finalized) : client[k].finalized[n] = f})

C26_FinalizedOnce ==
  \A k \in Clients : \A f \in Own(k) : TimesFinalized(k, f) <= 1

\* C27 as stated: once a /api/download request has failed terminally (answered
\* 500), the last payload it has emitted is an error.
C27_LastIsError ==
  \A r \in Downloads : dl[r].response.status = 500 => pub[r].last = "error"

\* C28 as stated: every /api/download request that has reached the server is
\* eventually answered.
C28_Answered ==
  \A r \in Downloads : (dl[r].pc # "new") ~> (dl[r].response # NoResponse)

\* C28: the same as long as the server process lives.
C28_AnsweredWhileAlive ==
  \A r \in Downloads : (dl[r].pc # "new") ~> (dl[r].response # NoResponse \/ ~alive)

\* The payloads a step appends to the record of emissions.
NewlyEmitted == SubSeq(log', Len(log) + 1, Len(log'))

Among(d, ds) == \E n \in 1..Len(ds) : ds[n] = d

\* What C29 asks of the payloads ds emitted for the chunk text t.
ChunkEventsAsStated(t, ds) ==
  /\ t.pct # -1 => Among(PercentData(t.pct), ds)
  /\ t.hundred => Among(FinalizingData, ds)
  /\ t.pct = -1 => \A n \in 1..Len(ds) : ds[n].progress = -1

\* C29 as stated: while the emissions are recorded, a chunk of either stream
\* with a percentage causes a payload with that percent, one with the 100%
\* marker causes {progress: 100, status: 'Finalizing...'}, and one without a
\* percentage causes no payload with a progress key.
C29_ChunkEvents ==
  [][\A r \in Downloads, a \in Attempts, s \in Streams, t \in ChunkTexts :
       ((\E c \in Conns : conn[c] # "new") /\ ExtractorChunk(r, a, s, t))
         => ChunkEventsAsStated(t, NewlyEmitted)]_vars

\* C29: the same for the chunks of standard output alone.
C29_StdoutChunkEvents ==
  [][\A r \in Downloads, a \in Attempts, t \in ChunkTexts :
       ((\E c \in Conns : conn[c] # "new") /\ ExtractorChunk(r, a, "stdout", t))
         => ChunkEventsAsStated(t, NewlyEmitted)]_vars

\* C30 as stated: once a /api/download request has been answered, the only
\* file made for it that exists is <id>.mp4: no meta_temp_ file, no
\* downloaded thumbnail, no part file.
C30_NoAuxiliaryFiles ==
  \A r \in Downloads :
    dl[r].response # NoResponse =>
      \A f \in files : f.id = r => f = FinalFile(r)

\* C30: a request was answered with success and the file ffmpeg wrote, or the
\* thumbnail embedMetadata downloaded, is still there.
C30_EmbedLeftovers ==
  \E r \in Downloads :
    /\ dl[r].response.success
    /\ TempFile(r) \in files
    /\ ThumbFile(r) \in files

\* The files whose name carries the id of request r: <id>.* and
\* meta_temp_<id>.mp4.
Carries(f, r) == f.id = r /\ f.prefix \in {"", "meta_temp_"}
FilesOf(r, fs) == {f \in fs : Carries(f, r)}

\* A step of the work of request r.
StepOf(r) ==
  \/ \E url \in BOOLEAN, ok \in BOOLEAN : PostDownload(r, url, ok)
  \/ \E ok \in BOOLEAN : PauseElapsed(r, ok)
  \/ \E a \in Attempts, f \in {PartFile(r), FinalFile(r)} : ExtractorWrites(r, a, f)
  \/ \E a \in Attempts : ExtractorError(r, a) \/ KillTimeout(r, a)
  \/ \E a \in Attempts, code \in ExitCodes, ok \in BOOLEAN : ExtractorClose(r, a, code, ok)
  \/ \E a \in Attempts, code \in ExitCodes : ExtractorLateClose(r, a, code)
  \/ FetchInfoError(r)
  \/ \E out \in DirResults, ok \in BOOLEAN : FetchInfoClose(r, out, ok)
  \/ \E out \in {"ok", "get", "pipe"}, ok \in BOOLEAN : ThumbDone(r, out, ok)
  \/ FfmpegError(r) \/ FfmpegWrites(r)
  \/ \E code \in ExitCodes : FfmpegClose(r, code)

\* C31: with requests in flight together, a step that creates or deletes a
\* file whose name carries a request's id, or replaces its <id>.mp4 by
\* ffmpeg's output, is a step of that request's own work; and no step, the
\* clean-up included, deletes a request's final <id>.mp4.
C31_OwnFilesOnly ==
  [][\A r \in Started :
       /\ (FilesOf(r, files') # FilesOf(r, files) \/ dl'[r].tagged # dl[r].tagged)
            => StepOf(r)
       /\ FinalFile(r) \in files => FinalFile(r) \in files']_vars

\* C31: a request has been answered after its rename and after its clean-up
\* deleted its part file, while another request is in flight with its part
\* file and its final file in the directory.
C31_Witness ==
  \E r \in Started, q \in Started :
    /\ r # q
    /\ dl[r].response.success /\ dl[r].tagged /\ PartFile(r) \in dl[r].cleaned
    /\ dl[q].pc \notin {"new", "done"}
    /\ PartFile(q) \in files /\ FinalFile(q) \in files

============================================================================
